---- MODULE Spec2Model ----
(***************************************************************************)
(* Model of the PDF -> SVG extraction service (src/index.js and the older  *)
(* copies of it under src/unnamed/).                                       *)
(*                                                                         *)
(* Text is modelled as a sequence of tokens: an opening tag with its       *)
(* attribute list, a closing tag, an XML declaration, character data.      *)
(* The regular expressions of the source are modelled by what they match   *)
(* on such a sequence (leftmost match, lazy/greedy choice, quote style,    *)
(* case-insensitivity).  Attribute values hold no '>' and no quote.        *)
(* JavaScript numbers are modelled as exact rationals <<num, den>> in      *)
(* lowest terms with den > 0; rounding of doubles is not modelled.         *)
(***************************************************************************)
EXTENDS Integers, Sequences, FiniteSets, TLC

\* ------------------------------------------------------------------ bounds
\* crop coordinates range over 0..MaxCoord
MaxCoord == 2
\* viewBox width/height range over 0..MaxDim
MaxDim == 2
\* raster dimensions range over 0..MaxRaster
MaxRaster == 1
\* tokens in a generated page text
MaxDocLen == 4
\* attributes on a generated root tag
MaxAttrs == 3
\* pages the renderer returns
MaxPages == 2
\* requests in flight at the same time
MaxRequests == 2

\* ------------------------------------------------------- rational numbers
RECURSIVE Gcd(_, _)
Gcd(a, b) == IF b = 0 THEN a ELSE Gcd(b, a % b)

Abs(n) == IF n < 0 THEN -n ELSE n

\* n/d with d # 0, in lowest terms with a positive denominator
RNorm(n, d) ==
  LET s == IF d < 0 THEN -1 ELSE 1
      g == Gcd(Abs(n), Abs(d))
  IN  IF n = 0 THEN <<0, 1>>
      ELSE <<(s * n) \div g, (s * d) \div g>>

R(n)       == <<n, 1>>
RAdd(a, b) == RNorm(a[1] * b[2] + b[1] * a[2], a[2] * b[2])
RNeg(a)    == <<-a[1], a[2]>>
RSub(a, b) == RAdd(a, RNeg(b))
RMul(a, b) == RNorm(a[1] * b[1], a[2] * b[2])
RDiv(a, b) == RNorm(a[1] * b[2], a[2] * b[1])
RLt(a, b)  == a[1] * b[2] < b[1] * a[2]
RLe(a, b)  == a[1] * b[2] <= b[1] * a[2]
RPos(a)    == a[1] > 0
RZero      == <<0, 1>>
\* Math.max(0, a)
RMax0(a)   == IF a[1] > 0 THEN a ELSE RZero

\* ----------------------------------------------------------------- text
\* String.prototype.toLowerCase on the name atoms that occur in the model
Lower(s) ==
  CASE s = "XMLNS"   -> "xmlns"
    [] s = "XLINK"   -> "xlink"
    [] s = "XML"     -> "xml"
    [] s = "SVG"     -> "svg"
    [] s = "viewBox" -> "viewbox"
    [] s = "TOPLEFT" -> "topleft"
    [] s = "PDF"     -> "pdf"
    [] OTHER         -> s

\* An attribute name is pre:loc (pre = "" for an unprefixed name).
Name(pre, loc) == [pre |-> pre, loc |-> loc]
\* An attribute value: plain text, or a list of numbers with a separator.
StrVal(s)       == [txt |-> s, sep |-> "", nums |-> <<>>]
NumVal(sep, ns) == [txt |-> "", sep |-> sep, nums |-> ns]
\* name=value, quoted with " (q = "dq") or ' (q = "sq")
Attr(n, q, v) == [name |-> n, q |-> q, val |-> v]

OpenTag(tag, attrs) == [t |-> "open",  tag |-> tag, attrs |-> attrs]
CloseTag(tag)       == [t |-> "close", tag |-> tag, attrs |-> <<>>]
XmlDecl             == [t |-> "decl",  tag |-> "",  attrs |-> <<>>]
Text(id)            == [t |-> "text",  tag |-> id,  attrs |-> <<>>]

SvgNs   == "http://www.w3.org/2000/svg"
XlinkNs == "http://www.w3.org/1999/xlink"

\* /<svg\b[^>]*>/i matches this token
IsSvgOpen(tok)  == tok.t = "open"  /\ Lower(tok.tag) = "svg"
\* /<\/svg\s*>/i matches this token
IsSvgClose(tok) == tok.t = "close" /\ Lower(tok.tag) = "svg"

Null == [ok |-> FALSE, minX |-> RZero, minY |-> RZero, width |-> RZero, height |-> RZero]

\* the attributes of every tag of the text, in text order
RECURSIVE AllAttrs(_)
AllAttrs(doc) ==
  IF doc = <<>> THEN <<>> ELSE Head(doc).attrs \o AllAttrs(Tail(doc))

\* /viewBox\s*=\s*"(\s*-?\d+(?:\.\d+)?)\s+(\s*-?\d+(?:\.\d+)?)\s+(\d+(?:\.\d+)?)\s+(\d+(?:\.\d+)?)/i
\* at one attribute: the name ends in viewBox (any case), the value is in
\* double quotes and starts with four whitespace-separated numbers, the
\* third and fourth unsigned.
ViewBoxReMatches(a) ==
  /\ Lower(a.name.loc) = "viewbox"
  /\ a.q = "dq"
  /\ a.val.sep = "space"
  /\ Len(a.val.nums) >= 4
  /\ a.val.nums[3][1] >= 0
  /\ a.val.nums[4][1] >= 0

RECURSIVE FirstViewBoxMatch(_)
FirstViewBoxMatch(attrs) ==
  IF attrs = <<>> THEN Null
  ELSE IF ViewBoxReMatches(Head(attrs))
       THEN [ok |-> TRUE,
             minX   |-> Head(attrs).val.nums[1],
             minY   |-> Head(attrs).val.nums[2],
             width  |-> Head(attrs).val.nums[3],
             height |-> Head(attrs).val.nums[4]]
       ELSE FirstViewBoxMatch(Tail(attrs))

\* getViewBox: the leftmost match of the regular expression in the whole text
getViewBox(svgText) == FirstViewBoxMatch(AllAttrs(svgText))

\* stripXmlDecl: /^\s*<\?xml[^>]*>\s*/i removed
stripXmlDecl(svgText) ==
  IF svgText # <<>> /\ Head(svgText).t = "decl" THEN Tail(svgText) ELSE svgText

\* index of the first <svg ...> tag, 0 when there is none
RECURSIVE FirstSvgOpenFrom(_, _)
FirstSvgOpenFrom(doc, i) ==
  IF i > Len(doc) THEN 0
  ELSE IF IsSvgOpen(doc[i]) THEN i ELSE FirstSvgOpenFrom(doc, i + 1)

FirstSvgOpen(doc) == FirstSvgOpenFrom(doc, 1)

\* index of the first </svg> at or after i, 0 when there is none
RECURSIVE FirstSvgCloseFrom(_, _)
FirstSvgCloseFrom(doc, i) ==
  IF i > Len(doc) THEN 0
  ELSE IF IsSvgClose(doc[i]) THEN i ELSE FirstSvgCloseFrom(doc, i + 1)

\* position of name k among the keys of an ordered map, 0 when absent
RECURSIVE KeyIndexFrom(_, _, _)
KeyIndexFrom(map, k, i) ==
  IF i > Len(map) THEN 0
  ELSE IF map[i].name = k THEN i ELSE KeyIndexFrom(map, k, i + 1)

KeyIndex(map, k) == KeyIndexFrom(map, k, 1)

\* map[k] = v on an insertion-ordered object: a new key is appended, an
\* existing key keeps its place and takes the new value
MapSet(map, k, v) ==
  LET i == KeyIndex(map, k)
  IN  IF i = 0 THEN Append(map, [name |-> k, val |-> v])
      ELSE [map EXCEPT ![i] = [name |-> k, val |-> v]]

RECURSIVE AttrsToMap(_, _)
AttrsToMap(attrs, map) ==
  IF attrs = <<>> THEN map
  ELSE AttrsToMap(Tail(attrs), MapSet(map, Head(attrs).name, Head(attrs).val))

\* parseRootAttrs: the attributes of the first <svg ...> tag as a map
parseRootAttrs(svgText) ==
  LET i == FirstSvgOpen(svgText)
  IN  IF i = 0 THEN <<>> ELSE AttrsToMap(svgText[i].attrs, <<>>)

Failure(msg) == [ok |-> FALSE, err |-> msg, val |-> <<>>]
Success(v)   == [ok |-> TRUE,  err |-> "",  val |-> v]

MalformedMsg == "Input is not a valid SVG document"

\* extractInnerSvg: /<svg\b[^>]*>([\s\S]*?)<\/svg\s*>/i, group 1 of the
\* leftmost match, the lazy group ending at the first </svg> after the tag
extractInnerSvg(svgText) ==
  LET i == FirstSvgOpen(svgText)
      j == IF i = 0 THEN 0 ELSE FirstSvgCloseFrom(svgText, i + 1)
  IN  IF j = 0 THEN Failure(MalformedMsg)
      ELSE Success(SubSeq(svgText, i + 1, j - 1))

\* ------------------------------------------------------------ the cropper
\* lk === 'xmlns' || lk.startsWith('xmlns:') || lk.startsWith('xml:')
\* with lk the lower-cased name
IsNsName(k) ==
  \/ k.pre = "" /\ Lower(k.loc) = "xmlns"
  \/ Lower(k.pre) = "xmlns"
  \/ Lower(k.pre) = "xml"

NoViewBoxMsg   == "viewBox not found on page SVG"
ZeroBoxMsg     == "Invalid crop box: zero width/height"

\* const ns = { 'xmlns': ..., 'xmlns:xlink': ... }
CoreNs ==
  << [name |-> Name("", "xmlns"),      val |-> StrVal(SvgNs)],
     [name |-> Name("xmlns", "xlink"), val |-> StrVal(XlinkNs)] >>

\* !ns[k]: the key is absent or its value is the empty string
NsFalsy(ns, k) ==
  LET i == KeyIndex(ns, k)
  IN  i = 0 \/ ns[i].val = StrVal("")

\* for (const [k, v] of Object.entries(attrs)) { if (ns-ish && !ns[k]) ns[k] = v }
RECURSIVE CopyNsAttrs(_, _)
CopyNsAttrs(attrs, ns) ==
  IF attrs = <<>> THEN ns
  ELSE LET e == Head(attrs)
       IN  CopyNsAttrs(Tail(attrs),
             IF IsNsName(e.name) /\ NsFalsy(ns, e.name)
             THEN MapSet(ns, e.name, e.val) ELSE ns)

\* if (!('xml:space' in ns)) ns['xml:space'] = 'preserve'
WithXmlSpace(ns) ==
  IF KeyIndex(ns, Name("xml", "space")) = 0
  THEN Append(ns, [name |-> Name("xml", "space"), val |-> StrVal("preserve")])
  ELSE ns

\* Object.entries(ns).map(([k, v]) => `${k}="${v}"`)
NsAttrStr(ns) == [i \in 1..Len(ns) |-> Attr(ns[i].name, "dq", ns[i].val)]

BuildNs(svgText) == NsAttrStr(WithXmlSpace(CopyNsAttrs(parseRootAttrs(svgText), CoreNs)))

\* mutant: width and height exchanged in the viewBox
ViewBoxAttrSwapped(w, h) ==
  Attr(Name("", "viewBox"), "dq", NumVal("space", <<RZero, RZero, h, w>>))

ViewBoxAttr(w, h) ==
  Attr(Name("", "viewBox"), "dq", NumVal("space", <<RZero, RZero, w, h>>))
AspectAttr ==
  Attr(Name("", "preserveAspectRatio"), "dq", StrVal("xMidYMid meet"))
\* transform="translate(dx,dy)"
TranslateAttr(dx, dy) ==
  Attr(Name("", "transform"), "dq", [txt |-> "translate", sep |-> ",", nums |-> <<dx, dy>>])

\* the returned template string
Assemble(rootAttrs, w, h, dx, dy, inner) ==
  << OpenTag("svg", rootAttrs \o <<ViewBoxAttr(w, h), AspectAttr>>),
     OpenTag("g", <<TranslateAttr(dx, dy)>>) >>
  \o inner \o
  << CloseTag("g"), CloseTag("svg") >>

\* cropSvgString of src/index.js
cropSvgString(fullPageSvg, x1, y1, x2, y2) ==
  LET vb    == getViewBox(fullPageSvg)
      w     == RMax0(RSub(x2, x1))
      h     == RMax0(RSub(y2, y1))
      src   == stripXmlDecl(fullPageSvg)
      inner == extractInnerSvg(src)
      dx    == RNeg(RAdd(vb.minX, x1))
      dy    == RNeg(RAdd(vb.minY, y1))
  IN  IF ~vb.ok THEN Failure(NoViewBoxMsg)
      ELSE IF w = RZero \/ h = RZero THEN Failure(ZeroBoxMsg)
      ELSE IF ~inner.ok THEN inner
      ELSE Success(Assemble(BuildNs(src), w, h, dx, dy, inner.val))

\* cropSvgString of the first copy in src/unnamed/part_001: no viewBox is
\* read, the translation is (-x1, -y1)
cropSvgStringV1(fullPageSvg, x1, y1, x2, y2) ==
  LET w     == RMax0(RSub(x2, x1))
      h     == RMax0(RSub(y2, y1))
      src   == stripXmlDecl(fullPageSvg)
      inner == extractInnerSvg(src)
  IN  IF w = RZero \/ h = RZero THEN Failure(ZeroBoxMsg)
      ELSE IF ~inner.ok THEN inner
      ELSE Success(Assemble(BuildNs(src), w, h, RNeg(x1), RNeg(y1), inner.val))

\* keep.push(`${mm[1]}=${val}`) for every namespace-ish attribute
RECURSIVE KeepNsAttrs(_)
KeepNsAttrs(attrs) ==
  IF attrs = <<>> THEN <<>>
  ELSE (IF IsNsName(Head(attrs).name) THEN <<Head(attrs)>> ELSE <<>>)
       \o KeepNsAttrs(Tail(attrs))

HasKept(keep, k) == \E i \in 1..Len(keep) : keep[i].name = k

\* extractRootAttrs of the second copy in src/unnamed/part_001
extractRootAttrs(svgText) ==
  LET i     == FirstSvgOpen(svgText)
      keep  == IF i = 0 THEN <<>> ELSE KeepNsAttrs(svgText[i].attrs)
      keep1 == IF HasKept(keep, Name("xmlns", "xlink")) THEN keep
               ELSE Append(keep, Attr(Name("xmlns", "xlink"), "dq", StrVal(XlinkNs)))
      keep2 == IF HasKept(keep1, Name("xml", "space")) THEN keep1
               ELSE Append(keep1, Attr(Name("xml", "space"), "dq", StrVal("preserve")))
  IN  IF i = 0 THEN <<>> ELSE keep2

\* cropSvgString of the second copy in src/unnamed/part_001
cropSvgStringV2(fullPageSvg, x1, y1, x2, y2) ==
  LET w     == RMax0(RSub(x2, x1))
      h     == RMax0(RSub(y2, y1))
      src   == stripXmlDecl(fullPageSvg)
      inner == extractInnerSvg(src)
  IN  IF w = RZero \/ h = RZero THEN Failure(ZeroBoxMsg)
      ELSE IF ~inner.ok THEN inner
      ELSE Success(Assemble(
             <<Attr(Name("", "xmlns"), "dq", StrVal(SvgNs))>> \o extractRootAttrs(src),
             w, h, RNeg(x1), RNeg(y1), inner.val))

\* ------------------------------------------------------------- the mapper
None    == [some |-> FALSE, v |-> RZero]
Some(r) == [some |-> TRUE,  v |-> r]
\* v ?? 0
OrZero(o) == IF o.some THEN o.v ELSE RZero

Box(x1, y1, x2, y2) == [x1 |-> x1, y1 |-> y1, x2 |-> x2, y2 |-> y2]

\* mutant: the quotient is taken the other way round
ScaleFactorInverse(raster, svg) ==
  IF raster.some /\ RPos(raster.v) /\ RPos(svg) THEN RDiv(raster.v, svg) ELSE R(1)

\* rasterW && rasterW > 0 ? svgW / rasterW : 1
ScaleFactor(raster, svg) ==
  IF raster.some /\ RPos(raster.v) THEN RDiv(svg, raster.v) ELSE R(1)

\* (origin || 'pdf').toLowerCase()
OriginLower(origin) == Lower(IF origin = "" THEN "pdf" ELSE origin)

\* mapBoxToSvg, first half: the four products and the two swaps
ScaledBox(box, rasterW, rasterH, svgW, svgH) ==
  LET sx  == ScaleFactor(rasterW, svgW)
      sy  == ScaleFactor(rasterH, svgH)
      aX1 == RMul(OrZero(box.x1), sx)
      aX2 == RMul(OrZero(box.x2), sx)
      aY1 == RMul(OrZero(box.y1), sy)
      aY2 == RMul(OrZero(box.y2), sy)
  IN  Box(IF RLt(aX2, aX1) THEN aX2 ELSE aX1,
          IF RLt(aY2, aY1) THEN aY2 ELSE aY1,
          IF RLt(aX2, aX1) THEN aX1 ELSE aX2,
          IF RLt(aY2, aY1) THEN aY1 ELSE aY2)

\* mutant: the flip subtracts each Y from the height without exchanging them
mapBoxToSvgNoExchange(box, origin, rasterW, rasterH, svgW, svgH) ==
  LET b == ScaledBox(box, rasterW, rasterH, svgW, svgH)
  IN  IF OriginLower(origin) = "topleft"
      THEN Box(b.x1, RSub(svgH, b.y1), b.x2, RSub(svgH, b.y2))
      ELSE b

\* mapBoxToSvg of src/index.js; box holds optional numbers
mapBoxToSvg(box, origin, rasterW, rasterH, svgW, svgH) ==
  LET b == ScaledBox(box, rasterW, rasterH, svgW, svgH)
  IN  IF OriginLower(origin) = "topleft"
      THEN Box(b.x1, RSub(svgH, b.y2), b.x2, RSub(svgH, b.y1))
      ELSE b

\* convertTopLeftToBottomLeft of src/unnamed/part_001
convertTopLeftToBottomLeft(box, pageHeight) ==
  Box(box.x1, RSub(pageHeight, box.y2), box.x2, RSub(pageHeight, box.y1))

\* ------------------------------------------------------------ form fields
\* A multipart text field as received: absent, the empty string, text that
\* Number() turns into NaN or into an infinity, or a decimal numeral.
Field(k, n) == [k |-> k, n |-> n]
Absent      == Field("absent", 0)
Numeral(n)  == Field("num", n)

\* toNum: undefined for undefined, '' and every non-finite Number(v)
toNum(v) == IF v.k = "num" THEN Some(R(v.n)) ELSE None

\* getPageSizeFromSvg of src/unnamed/part_001:
\* /viewBox\s*=\s*"[^"]*?(\d+(?:\.\d+)?)\s+(\d+(?:\.\d+)?)\s+(\d+(?:\.\d+)?)\s+(\d+(?:\.\d+)?)/i
\* The lazy prefix skips to the first run of four whitespace-separated
\* numbers of which the last three carry no sign (a sign of the first is
\* swallowed by the prefix); only groups 3 and 4 are used.
RECURSIVE FirstRunFrom(_, _)
FirstRunFrom(nums, i) ==
  IF i + 3 > Len(nums) THEN 0
  ELSE IF nums[i + 1][1] >= 0 /\ nums[i + 2][1] >= 0 /\ nums[i + 3][1] >= 0
       THEN i ELSE FirstRunFrom(nums, i + 1)

PageSizeReMatches(a) ==
  /\ Lower(a.name.loc) = "viewbox"
  /\ a.q = "dq"
  /\ a.val.sep = "space"
  /\ FirstRunFrom(a.val.nums, 1) # 0

RECURSIVE FirstPageSizeMatch(_)
FirstPageSizeMatch(attrs) ==
  IF attrs = <<>> THEN Null
  ELSE IF PageSizeReMatches(Head(attrs))
       THEN LET i == FirstRunFrom(Head(attrs).val.nums, 1)
            IN  [ok |-> TRUE, minX |-> RZero, minY |-> RZero,
                 width  |-> Head(attrs).val.nums[i + 2],
                 height |-> Head(attrs).val.nums[i + 3]]
       ELSE FirstPageSizeMatch(Tail(attrs))

getPageSizeFromSvg(svgText) == FirstPageSizeMatch(AllAttrs(svgText))

\* ------------------------------------------------------------------ state
VARIABLES
  fin,       \* inputs of a function application
  fop,       \* the function applied to them ("none" before)
  fout,      \* what it returned
  endpoint,  \* "extract" or "crop": the route of the request
  req,       \* the request: uploaded file's field name and the body fields
  pc,        \* the handler's position
  pdfIn,     \* TRUE once pdfIn has been assigned
  fs,        \* the files of this request that exist under /tmp
  rendered,  \* the page texts the renderer produced
  svgPaths,  \* number of paths saveFiles returned
  svgPages,  \* the page texts read back
  thrown,    \* message of the error travelling to the catch block
  trace,     \* what the crop handler computed on its way
  resp,      \* the response sent ("status" 0: none yet)
  calls,     \* how often fs.rename and the renderer were called for the request
  build,     \* the server file that runs when requests overlap
  tmp,       \* the files under /tmp all requests see, each with its content
  reqs       \* the handler state of every request in flight

fnVars   == <<fin, fop, fout>>
reqVars  == <<endpoint, req, pc, pdfIn, fs, rendered, svgPaths, svgPages, thrown, trace,
              resp, calls>>
concVars == <<build, tmp, reqs>>
vars     == <<fin, fop, fout, endpoint, req, pc, pdfIn, fs, rendered, svgPaths,
              svgPages, thrown, trace, resp, calls, build, tmp, reqs>>

\* ------------------------------------------------- inputs of the functions
VbAttr(q, sep, a, b, c, d) ==
  Attr(Name("", "viewBox"), q, NumVal(sep, <<R(a), R(b), R(c), R(d)>>))

SvgPage(attrs, content) == <<OpenTag("svg", attrs)>> \o content \o <<CloseTag("svg")>>

\* an element other than <svg> that carries a viewBox of its own
Symbol == OpenTag("symbol", <<VbAttr("dq", "space", 1, 1, 5, 5)>>)

FnInput(fam, doc, box, origin, rw, rh, sw, sh) ==
  [fam |-> fam, doc |-> doc, box |-> box, origin |-> origin,
   rasterW |-> rw, rasterH |-> rh, svgW |-> sw, svgH |-> sh]

IntBox(a, b, c, d) == Box(Some(R(a)), Some(R(b)), Some(R(c)), Some(R(d)))

Coords   == 0..MaxCoord
Origins  == {"", "pdf", "topleft"}
Rasters  == {None} \cup {Some(R(n)) : n \in 0..MaxRaster}

\* the tokens page texts are built from
DocAlphabet ==
  { XmlDecl, Text("a"), CloseTag("svg"), Symbol,
    OpenTag("svg", <<>>),
    OpenTag("svg", <<VbAttr("dq", "space", 0, 0, 2, 2)>>),
    OpenTag("svg", <<VbAttr("dq", "space", -1, -1, 3, 3)>>) }

SeqsUpTo(S, n) == UNION { [1..k -> S] : k \in 0..n }

\* the attributes root tags are built from
AttrAlphabet ==
  { VbAttr("dq", "space", 0, 0, 2, 2),
    VbAttr("sq", "space", 0, 0, 2, 2),
    VbAttr("dq", "comma", 0, 0, 2, 2),
    Attr(Name("", "xmlns"), "dq", StrVal(SvgNs)),
    Attr(Name("xmlns", "xlink"), "dq", StrVal(XlinkNs)),
    Attr(Name("xmlns", "xlink"), "sq", StrVal("custom")),
    Attr(Name("XMLNS", "XLINK"), "dq", StrVal("custom")),
    Attr(Name("xml", "space"), "dq", StrVal("default")),
    Attr(Name("xml", "space"), "dq", StrVal("preserve")),
    Attr(Name("", "width"), "dq", StrVal("10")) }

DocBoxes == { IntBox(0, 0, 1, 1), IntBox(0, 0, 0, 1) }

ExamplePage(mx, my, w, h) == SvgPage(<<VbAttr("dq", "space", mx, my, w, h)>>, <<Text("a")>>)

\* the worked examples of the specification, and a few edge cases
ExampleInputs ==
  { FnInput("ex", ExamplePage(-20, -30, 100, 200), IntBox(10, 10, 50, 60), "pdf",
            None, None, R(100), R(200)),
    FnInput("ex", ExamplePage(0, 0, 100, 200), IntBox(10, 10, 50, 60), "pdf",
            None, None, R(100), R(200)),
    FnInput("ex", ExamplePage(0, 0, 100, 200), IntBox(10, 20, 50, 80), "topleft",
            None, None, R(100), R(200)),
    FnInput("ex", ExamplePage(0, 0, 100, 200), IntBox(100, 200, 300, 400), "pdf",
            Some(R(1000)), Some(R(2000)), R(100), R(200)),
    FnInput("ex", ExamplePage(0, 0, 100, 200), IntBox(100, 200, 300, 400), "TOPLEFT",
            Some(R(1000)), None, R(100), R(200)),
    FnInput("ex", ExamplePage(0, 0, 3, 3), Box(None, Some(R(2)), Some(R(1)), None), "",
            Some(R(2)), Some(R(2)), R(3), R(3)),
    FnInput("ex", <<XmlDecl, OpenTag("SVG", <<VbAttr("dq", "space", 0, 0, 3, 3)>>),
                    Text("a"), CloseTag("SVG")>>,
            Box(Some(<<1, 2>>), Some(<<1, 2>>), Some(<<3, 2>>), Some(R(2))), "",
            None, None, R(3), R(3)) }

NoInput == FnInput("", <<>>, IntBox(0, 0, 0, 0), "", None, None, RZero, RZero)

\* every coordinate of the box is a number
IsRect(box) == box.x1.some /\ box.y1.some /\ box.x2.some /\ box.y2.some
RectOf(box) == Box(box.x1.v, box.y1.v, box.x2.v, box.y2.v)

\* --------------------------------------------------------------- requests
\* coordinate fields of a request range over 0..MaxReqCoord
MaxReqCoord == 1

CoordFields  == {Absent, Field("nan", 0)} \cup {Numeral(n) : n \in 0..MaxReqCoord}
PageFields   == {Absent, Field("empty", 0)} \cup {Numeral(n) : n \in 0..(MaxPages + 1)}
RasterFields == {Absent, Numeral(2)}

Request(file, page, x1, y1, x2, y2, origin, rw, rh) ==
  [file |-> file, page |-> page, x1 |-> x1, y1 |-> y1, x2 |-> x2, y2 |-> y2,
   coordsOrigin |-> origin, rasterPageWidth |-> rw, rasterPageHeight |-> rh]

NoRequest == Request("", Absent, Absent, Absent, Absent, Absent, "", Absent, Absent)

\* the page texts the renderer may return
PageDocs ==
  { SvgPage(<<VbAttr("dq", "space", -1, 0, 2, 2)>>, <<Text("a")>>),
    SvgPage(<<VbAttr("dq", "space", 0, 0, 0, 2)>>, <<Text("b")>>),
    SvgPage(<<>>, <<Text("c")>>),
    <<Symbol>> }

PageSeqs == SeqsUpTo(PageDocs, MaxPages)

\* files under /tmp
TmpFile    == [kind |-> "upload", n |-> 0]      \* req.file.path
PdfFile    == [kind |-> "pdf", n |-> 0]         \* `${tmpIn}.pdf`
SvgFile(i) == [kind |-> "svg", n |-> i]         \* saved by result.saveFiles
SvgFiles(n) == { SvgFile(i) : i \in 1..n }

\* ------------------------------------------------------------- responses
Msg(text, args) == [text |-> text, args |-> args]
NoMsg           == Msg("", <<>>)

NoFileCropMsg    == Msg("No file uploaded under field \"data\" or \"pdf\"", <<>>)
NoFileExtractMsg == Msg("No file uploaded under field \"data\"", <<>>)
MissingCoordsMsg == Msg("Missing or invalid x1,y1,x2,y2", <<>>)
BadBoxMsg        == Msg("Invalid crop box: ensure x2>x1 and y2>y1", <<>>)
\* mutant: the message leaves out the page count
OutOfRangeMsgNoCount(page, n) == Msg("Page ${page} out of range", <<page>>)

\* `Page ${page} out of range (has ${svgPages.length})`
OutOfRangeMsg(page, n) == Msg("Page ${page} out of range (has ${svgPages.length})", <<page, n>>)
NoPageViewBoxMsg == Msg("Could not read page viewBox", <<>>)
ConversionFailedMsg == Msg("Conversion failed", <<>>)
\* messages of errors thrown by the file system and by the renderer's client
RenameFailedMsg  == Msg("ENOENT: rename", <<>>)
ReadFailedMsg    == Msg("ENOENT: open", <<>>)
RendererMsg      == Msg("Request failed", <<>>)
\* an error without a message
EmptyErrMsg      == Msg("", <<>>)

NoBox == Box(RZero, RZero, RZero, RZero)

Resp(status, error, svg, page, vb, mapped, pages) ==
  [status |-> status, error |-> error, svg |-> svg, page |-> page,
   svg_viewBox |-> vb, coords_svg |-> mapped, svgPages |-> pages]

ErrorResp(status, msg) == Resp(status, msg, <<>>, RZero, Null, NoBox, <<>>)
NoResp == ErrorResp(0, NoMsg)

Trace(stage, pageIdx, page, mapped) ==
  [stage |-> stage, pageIdx |-> pageIdx, fullPageSvg |-> page, mapped |-> mapped]
NoTrace == Trace("", 0, <<>>, NoBox)

\* the file the crop route works on: field 'data', else field 'pdf', else req.file
HasCropFile(r) == r.file \in {"data", "pdf"}

\* toNum(req.body.page) ?? 1
PageOf(r) == IF toNum(r.page).some THEN toNum(r.page).v ELSE R(1)

\* mutant: the order check lets a rectangle of width or height zero through
CropValidateLoose(r) ==
  LET x1 == toNum(r.x1)
      y1 == toNum(r.y1)
      x2 == toNum(r.x2)
      y2 == toNum(r.y2)
  IN  IF ~HasCropFile(r) THEN ErrorResp(400, NoFileCropMsg)
      ELSE IF ~x1.some \/ ~y1.some \/ ~x2.some \/ ~y2.some
           THEN ErrorResp(400, MissingCoordsMsg)
      ELSE IF ~(RLe(x1.v, x2.v) /\ RLe(y1.v, y2.v))
           THEN ErrorResp(400, BadBoxMsg)
      ELSE NoResp

\* mutant: only the file is checked before the upload is renamed
CropValidateFileOnly(r) ==
  IF ~HasCropFile(r) THEN ErrorResp(400, NoFileCropMsg) ELSE NoResp

\* the crop route from its start to its first await (or to its return)
CropValidate(r) ==
  LET x1 == toNum(r.x1)
      y1 == toNum(r.y1)
      x2 == toNum(r.x2)
      y2 == toNum(r.y2)
  IN  IF ~HasCropFile(r) THEN ErrorResp(400, NoFileCropMsg)
      ELSE IF ~x1.some \/ ~y1.some \/ ~x2.some \/ ~y2.some
           THEN ErrorResp(400, MissingCoordsMsg)
      ELSE IF ~(RLt(x1.v, x2.v) /\ RLt(y1.v, y2.v))
           THEN ErrorResp(400, BadBoxMsg)
      ELSE NoResp

\* the crop route after renderFullPageSvgs has returned, up to its response:
\* page selection, viewBox, mapping, crop; an error thrown by cropSvgString
\* is caught and answered with its message
CropRespond(r, pages) ==
  LET page    == PageOf(r)
      pageIdx == page[1] - 1
      full    == pages[pageIdx + 1]
      vb      == getViewBox(full)
      mapped  == mapBoxToSvg(Box(toNum(r.x1), toNum(r.y1), toNum(r.x2), toNum(r.y2)),
                             Lower(IF r.coordsOrigin = "" THEN "pdf" ELSE r.coordsOrigin),
                             toNum(r.rasterPageWidth), toNum(r.rasterPageHeight),
                             vb.width, vb.height)
      cropped == cropSvgString(full, mapped.x1, mapped.y1, mapped.x2, mapped.y2)
  IN  IF pageIdx < 0 \/ pageIdx >= Len(pages)
      THEN [resp  |-> ErrorResp(400, OutOfRangeMsg(page[1], Len(pages))),
            trace |-> Trace("range", pageIdx, <<>>, NoBox)]
      ELSE IF ~vb.ok
      THEN [resp  |-> ErrorResp(400, NoPageViewBoxMsg),
            trace |-> Trace("viewBox", pageIdx, full, NoBox)]
      ELSE IF ~cropped.ok
      THEN [resp  |-> ErrorResp(400, Msg(cropped.err, <<>>)),
            trace |-> Trace("crop", pageIdx, full, mapped)]
      ELSE [resp  |-> Resp(200, NoMsg, cropped.val, page, vb, mapped, <<>>),
            trace |-> Trace("crop", pageIdx, full, mapped)]

\* ---------------------------------------------------------------- actions
\* A request arrives; multer stores the uploaded file under /tmp.
Receive ==
  /\ pc = "idle"
  /\ \/ \* upload.single('data'): the file, if any, is under field "data"
        /\ endpoint' = "extract"
        /\ \E f \in {"", "data"} :
             req' = Request(f, Absent, Absent, Absent, Absent, Absent, "", Absent, Absent)
     \/ \* upload.any(): a file under any field name is stored
        /\ endpoint' = "crop"
        /\ \E f \in {"", "data", "pdf", "other"}, p \in PageFields,
              a \in CoordFields, b \in CoordFields, c \in CoordFields, d \in CoordFields,
              o \in {"", "topleft"}, rw \in RasterFields, rh \in RasterFields :
             req' = Request(f, p, a, b, c, d, o, rw, rh)
  /\ fs' = IF req'.file = "" THEN {} ELSE {TmpFile}
  /\ pc' = "start"
  /\ UNCHANGED <<pdfIn, rendered, svgPaths, svgPages, thrown, trace, resp>>
  /\ UNCHANGED <<fnVars, concVars, calls>>

\* POST /extract-svg up to `await fs.rename`
ExtractStart ==
  /\ pc = "start" /\ endpoint = "extract"
  /\ IF req.file = ""
     THEN /\ resp' = ErrorResp(400, NoFileExtractMsg)
          /\ pc' = "done"
          /\ UNCHANGED pdfIn
     ELSE /\ pdfIn' = TRUE
          /\ pc' = "rename"
          /\ UNCHANGED resp
  /\ UNCHANGED <<endpoint, req, fs, rendered, svgPaths, svgPages, thrown, trace>>
  /\ UNCHANGED <<fnVars, concVars, calls>>

\* POST /extract-svg-crop up to `await fs.rename`, or to its early return
CropStart ==
  /\ pc = "start" /\ endpoint = "crop"
  /\ IF CropValidate(req).status # 0
     THEN /\ resp' = CropValidate(req)
          /\ pc' = "finally"
          /\ UNCHANGED pdfIn
     ELSE /\ pdfIn' = TRUE
          /\ pc' = "rename"
          /\ UNCHANGED resp
  /\ UNCHANGED <<endpoint, req, fs, rendered, svgPaths, svgPages, thrown, trace>>
  /\ UNCHANGED <<fnVars, concVars, calls>>

\* await fs.rename(tmpIn, pdfIn)
Rename ==
  /\ pc = "rename"
  /\ \/ /\ fs' = (fs \ {TmpFile}) \cup {PdfFile}
        /\ pc' = "convert"
        /\ UNCHANGED thrown
     \/ /\ thrown' = RenameFailedMsg
        /\ pc' = "catch"
        /\ UNCHANGED fs
  /\ calls' = [calls EXCEPT !.rename = @ + 1]
  /\ UNCHANGED <<endpoint, req, pdfIn, rendered, svgPaths, svgPages, trace, resp>>
  /\ UNCHANGED <<fnVars, concVars>>

\* await convertapi.convert('svg', { File: pdfTmpPath }, 'pdf')
Convert ==
  /\ pc = "convert"
  /\ \/ /\ \E pages \in PageSeqs : rendered' = pages
        /\ pc' = "save"
        /\ calls' = [calls EXCEPT !.convert = @ + 1, !.returned = TRUE]
        /\ UNCHANGED thrown
     \/ /\ \E m \in {RendererMsg, EmptyErrMsg} : thrown' = m
        /\ pc' = "catch"
        /\ calls' = [calls EXCEPT !.convert = @ + 1]
        /\ UNCHANGED rendered
  /\ UNCHANGED <<endpoint, req, pdfIn, fs, svgPaths, svgPages, trace, resp>>
  /\ UNCHANGED <<fnVars, concVars>>

\* await result.saveFiles('/tmp')
SaveFiles ==
  /\ pc = "save"
  /\ fs' = fs \cup SvgFiles(Len(rendered))
  /\ svgPaths' = Len(rendered)
  /\ pc' = "read"
  /\ UNCHANGED <<endpoint, req, pdfIn, rendered, svgPages, thrown, trace, resp>>
  /\ UNCHANGED <<fnVars, concVars, calls>>

\* await Promise.all(svgPaths.map(p => fs.readFile(p, 'utf-8')))
ReadFiles ==
  /\ pc = "read"
  /\ \/ /\ svgPages' = rendered
        /\ pc' = "unlink"
        /\ UNCHANGED thrown
     \/ /\ svgPaths > 0
        /\ thrown' = ReadFailedMsg
        /\ pc' = "unlinkErr"
        /\ UNCHANGED svgPages
  /\ UNCHANGED <<endpoint, req, pdfIn, fs, rendered, svgPaths, trace, resp>>
  /\ UNCHANGED <<fnVars, concVars, calls>>

\* await Promise.all(svgPaths.map(p => fs.unlink(p).catch(() => {}))); return svgPages
UnlinkSvgs ==
  /\ pc = "unlink"
  /\ fs' = fs \ SvgFiles(svgPaths)
  /\ pc' = "rendered"
  /\ UNCHANGED <<endpoint, req, pdfIn, rendered, svgPaths, svgPages, thrown, trace, resp>>
  /\ UNCHANGED <<fnVars, concVars, calls>>

\* the same in the catch block of renderFullPageSvgs; throw e
UnlinkSvgsThrow ==
  /\ pc = "unlinkErr"
  /\ fs' = fs \ SvgFiles(svgPaths)
  /\ pc' = "catch"
  /\ UNCHANGED <<endpoint, req, pdfIn, rendered, svgPaths, svgPages, thrown, trace, resp>>
  /\ UNCHANGED <<fnVars, concVars, calls>>

\* POST /extract-svg: await fs.unlink(pdfIn).catch(() => {})
ExtractUnlinkPdf ==
  /\ pc = "rendered" /\ endpoint = "extract"
  /\ fs' = fs \ {PdfFile}
  /\ pc' = "respond"
  /\ UNCHANGED <<endpoint, req, pdfIn, rendered, svgPaths, svgPages, thrown, trace, resp>>
  /\ UNCHANGED <<fnVars, concVars, calls>>

\* POST /extract-svg: return res.json({ svgPages })
ExtractRespond ==
  /\ pc = "respond"
  /\ resp' = Resp(200, NoMsg, <<>>, RZero, Null, NoBox, svgPages)
  /\ pc' = "done"
  /\ UNCHANGED <<endpoint, req, pdfIn, fs, rendered, svgPaths, svgPages, thrown, trace>>
  /\ UNCHANGED <<fnVars, concVars, calls>>

\* POST /extract-svg-crop from the return of renderFullPageSvgs to its response
CropFinish ==
  /\ pc = "rendered" /\ endpoint = "crop"
  /\ resp' = CropRespond(req, svgPages).resp
  /\ trace' = CropRespond(req, svgPages).trace
  /\ pc' = "finally"
  /\ UNCHANGED <<endpoint, req, pdfIn, fs, rendered, svgPaths, svgPages, thrown>>
  /\ UNCHANGED <<fnVars, concVars, calls>>

\* the catch blocks of the two routes:
\*   res.status(500).json({ error: err.message || 'Conversion failed' })
\*   res.status(400).json({ error: String(err?.message || err) })
Catch ==
  /\ pc = "catch"
  /\ IF endpoint = "extract"
     THEN /\ resp' = ErrorResp(500, IF thrown.text = "" THEN ConversionFailedMsg ELSE thrown)
          /\ pc' = "done"
     ELSE /\ resp' = ErrorResp(400, IF thrown.text = "" THEN Msg("Error", <<>>) ELSE thrown)
          /\ pc' = "finally"
  /\ UNCHANGED <<endpoint, req, pdfIn, fs, rendered, svgPaths, svgPages, thrown, trace>>
  /\ UNCHANGED <<fnVars, concVars, calls>>

\* finally { if (pdfIn) { try { await fs.unlink(pdfIn); } catch (_) {} } }
Finally ==
  /\ pc = "finally"
  /\ fs' = IF pdfIn THEN fs \ {PdfFile} ELSE fs
  /\ pc' = "done"
  /\ UNCHANGED <<endpoint, req, pdfIn, rendered, svgPaths, svgPages, thrown, trace, resp>>
  /\ UNCHANGED <<fnVars, concVars, calls>>

\* ------------------------------------------------ requests that overlap
\* the three versions of POST /extract-svg in the repository
Builds   == {"part_000", "part_002", "index.js"}
Requests == 1..MaxRequests

\* A file under /tmp and what it holds.  multer({ dest: '/tmp' }) stores an
\* upload under fresh random bytes, so an upload's name is its request's own
\* (stem r); the content remembers whose PDF it is or was rendered from.
Path(kind, stem, n)  == [kind |-> kind, stem |-> stem, n |-> n]
Content(owner, page) == [owner |-> owner, page |-> page]
File(path, content)  == [path |-> path, content |-> content]
UploadPath(r) == Path("upload", r, 0)
PdfPath(r)    == Path("pdf", r, 0)

\* the path handed to convertapi.convert as File
ConvertPath(b, r) == IF b = "index.js" THEN PdfPath(r) ELSE UploadPath(r)

\* The renderer names its result files after the file name of the
\* conversion: the FileName parameter where the call gives one (part_002:
\* 'upload.pdf', the same for every request, stem 0), the name of File
\* otherwise; result.saveFiles('/tmp') writes /tmp/<that name>, one per page.
ResultStem(b, r)     == IF b = "part_002" THEN 0 ELSE r
SavedPaths(b, r, n)  == [i \in 1..n |-> Path("svg", ResultStem(b, r), i)]
PathSet(paths)       == { paths[i] : i \in 1..Len(paths) }

Exists(t, p)         == \E f \in t : f.path = p
ReadFile(t, p)       == (CHOOSE f \in t : f.path = p).content
WriteFiles(t, paths, contents) ==
  { f \in t : f.path \notin PathSet(paths) }
    \cup { File(paths[i], contents[i]) : i \in 1..Len(paths) }
UnlinkFiles(t, ps)   == { f \in t : f.path \notin ps }
\* whose content sits at the paths ps
OwnersAt(t, ps)      == { f.content.owner : f \in { g \in t : g.path \in ps } }

\* the handler of one request: where it stands, its locals, its response
Handler(at, file, pages, result, savedPaths, pagesRead, status, touched) ==
  [pc |-> at, file |-> file, pages |-> pages, result |-> result,
   savedPaths |-> savedPaths, svgPages |-> pagesRead, status |-> status,
   touched |-> touched]
IdleHandler == Handler("idle", FALSE, 0, <<>>, <<>>, <<>>, 0, {})

IdleConc ==
  /\ tmp = {} /\ reqs = [r \in Requests |-> IdleHandler]

IdleRequest ==
  /\ endpoint = "" /\ req = NoRequest /\ pc = "idle" /\ pdfIn = FALSE /\ fs = {}
  /\ rendered = <<>> /\ svgPaths = 0 /\ svgPages = <<>> /\ thrown = NoMsg
  /\ trace = NoTrace /\ resp = NoResp
  /\ calls = [rename |-> 0, convert |-> 0, returned |-> FALSE]

Init ==
  /\ fin = NoInput /\ fop = "none" /\ fout = <<>>
  /\ IdleRequest
  /\ build = "index.js" /\ IdleConc

Next ==
  \/ Receive
  \/ ExtractStart
  \/ CropStart
  \/ Rename
  \/ Convert
  \/ SaveFiles
  \/ ReadFiles
  \/ UnlinkSvgs
  \/ UnlinkSvgsThrow
  \/ ExtractUnlinkPdf
  \/ ExtractRespond
  \/ CropFinish
  \/ Catch
  \/ Finally

Spec == Init /\ [][Next]_vars

\* --------------------------------------- the functions applied to inputs
Apply(op, result) ==
  /\ fop = "none"
  /\ fop' = op
  /\ fout' = result
  /\ UNCHANGED fin
  /\ UNCHANGED <<reqVars, concVars>>

InDoc == fin.fam \in {"doc", "ex"}
InNum == fin.fam \in {"num", "doc", "ex"} /\ IsRect(fin.box)
InMap == fin.fam \in {"map", "ex"}

ApplyGetViewBox ==
  InDoc /\ Apply("getViewBox", getViewBox(fin.doc))

ApplyGetPageSizeFromSvg ==
  InDoc /\ Apply("getPageSizeFromSvg", getPageSizeFromSvg(fin.doc))

ApplyCropSvgString ==
  InNum /\ Apply("cropSvgString",
                 cropSvgString(fin.doc, fin.box.x1.v, fin.box.y1.v, fin.box.x2.v, fin.box.y2.v))

ApplyCropSvgStringV1 ==
  InNum /\ Apply("cropSvgStringV1",
                 cropSvgStringV1(fin.doc, fin.box.x1.v, fin.box.y1.v, fin.box.x2.v, fin.box.y2.v))

ApplyCropSvgStringV2 ==
  InNum /\ Apply("cropSvgStringV2",
                 cropSvgStringV2(fin.doc, fin.box.x1.v, fin.box.y1.v, fin.box.x2.v, fin.box.y2.v))

ApplyMapBoxToSvg ==
  InMap /\ Apply("mapBoxToSvg",
                 mapBoxToSvg(fin.box, fin.origin, fin.rasterW, fin.rasterH, fin.svgW, fin.svgH))

ApplyConvertTopLeftToBottomLeft ==
  InMap /\ IsRect(fin.box) /\ ~fin.rasterW.some /\ ~fin.rasterH.some
        /\ Apply("convertTopLeftToBottomLeft",
                 convertTopLeftToBottomLeft(RectOf(fin.box), fin.svgH))

\* inputs of the mapper
InitMap ==
  \E a \in Coords, b \in Coords, c \in Coords, d \in Coords, o \in Origins,
     rw \in Rasters, rh \in Rasters, sw \in 1..MaxDim, sh \in 1..MaxDim :
    fin = FnInput("map", <<>>, IntBox(a, b, c, d), o, rw, rh, R(sw), R(sh))

\* inputs of the cropper that vary the numbers: one well-formed page
InitNum ==
  \E mx \in -1..1, my \in -1..1, w \in 0..MaxDim, h \in 0..MaxDim,
     a \in Coords, b \in Coords, c \in Coords, d \in Coords :
    fin = FnInput("num", SvgPage(<<VbAttr("dq", "space", mx, my, w, h)>>, <<Text("a")>>),
                  IntBox(a, b, c, d), "", None, None, R(w), R(h))

\* inputs that vary the text
InitDoc ==
  \E doc \in SeqsUpTo(DocAlphabet, MaxDocLen), box \in DocBoxes :
    fin = FnInput("doc", doc, box, "", None, None, RZero, RZero)

\* inputs that vary the attributes of the root tag
InitAttrs ==
  \E attrs \in SeqsUpTo(AttrAlphabet, MaxAttrs) :
    fin = FnInput("doc", SvgPage(attrs, <<Symbol>>), IntBox(0, 0, 1, 1), "", None, None,
                  RZero, RZero)

InitFn ==
  /\ \/ InitMap
     \/ InitNum
     \/ InitDoc
     \/ InitAttrs
     \/ fin \in ExampleInputs
  /\ fop = "none" /\ fout = <<>>
  /\ IdleRequest
  /\ build = "index.js" /\ IdleConc

NextFn ==
  \/ ApplyGetViewBox
  \/ ApplyGetPageSizeFromSvg
  \/ ApplyCropSvgString
  \/ ApplyCropSvgStringV1
  \/ ApplyCropSvgStringV2
  \/ ApplyMapBoxToSvg
  \/ ApplyConvertTopLeftToBottomLeft

SpecFn == InitFn /\ [][NextFn]_vars

\* ------------------------------- POST /extract-svg, requests interleaved
\* every await of the handler is a step of its own; between two steps of
\* one request any step of another may run
Step(r, h, t) ==
  /\ reqs' = [reqs EXCEPT ![r] = h]
  /\ tmp' = t
  /\ UNCHANGED <<build, fnVars, reqVars>>

\* upload.single('data'): multer stores the file, if one was sent
ConcReceive(r) ==
  /\ reqs[r].pc = "idle"
  /\ \E file \in BOOLEAN, n \in 1..MaxPages :
       Step(r, [reqs[r] EXCEPT !.pc = "start", !.file = file, !.pages = n],
            IF file THEN tmp \cup {File(UploadPath(r), Content(r, 0))} ELSE tmp)

\* if (!req.file) return 400; index.js goes on to rename, the older files
\* to convertapi.convert
ConcStart(r) ==
  /\ reqs[r].pc = "start"
  /\ Step(r, IF ~reqs[r].file
             THEN [reqs[r] EXCEPT !.pc = "done", !.status = 400]
             ELSE [reqs[r] EXCEPT !.pc = IF build = "index.js" THEN "rename" ELSE "convert"],
          tmp)

\* index.js: await fs.rename(tmpIn, pdfIn)
ConcRename(r) ==
  /\ reqs[r].pc = "rename"
  /\ \/ Step(r, [reqs[r] EXCEPT !.pc = "convert"],
              UnlinkFiles(tmp, {UploadPath(r)})
                \cup {File(PdfPath(r), ReadFile(tmp, UploadPath(r)))})
     \/ Step(r, [reqs[r] EXCEPT !.pc = "catch"], tmp)

\* await convertapi.convert('svg', { File: ... }): the pages of the file at
\* the path, held by the result; or a rejection
ConcConvert(r) ==
  /\ reqs[r].pc = "convert"
  /\ \/ LET pdf == ReadFile(tmp, ConvertPath(build, r))
         IN  Step(r, [reqs[r] EXCEPT
                        !.pc = "save",
                        !.result = [i \in 1..reqs[r].pages |-> Content(pdf.owner, i)],
                        !.touched = @ \cup {pdf.owner}],
                  tmp)
     \/ Step(r, [reqs[r] EXCEPT !.pc = "catch"], tmp)

\* await result.saveFiles('/tmp'): a file that is there already is overwritten
ConcSaveFiles(r) ==
  /\ reqs[r].pc = "save"
  /\ LET paths == SavedPaths(build, r, Len(reqs[r].result))
     IN  Step(r, [reqs[r] EXCEPT
                    !.pc = "read",
                    !.savedPaths = paths,
                    !.touched = @ \cup OwnersAt(tmp, PathSet(paths))],
              WriteFiles(tmp, paths, reqs[r].result))

\* await Promise.all(savedPaths.map(p => fs.readFile(p, 'utf-8'))): rejects
\* when a file is gone; index.js then unlinks in its inner catch
ConcReadFiles(r) ==
  /\ reqs[r].pc = "read"
  /\ LET paths == reqs[r].savedPaths
         seen  == [reqs[r] EXCEPT !.touched = @ \cup OwnersAt(tmp, PathSet(paths))]
     IN  IF \A i \in 1..Len(paths) : Exists(tmp, paths[i])
         THEN Step(r, [seen EXCEPT
                         !.pc = "unlink",
                         !.svgPages = [i \in 1..Len(paths) |-> ReadFile(tmp, paths[i])]],
                   tmp)
         ELSE Step(r, [seen EXCEPT
                         !.pc = IF build = "index.js" THEN "unlinkErr" ELSE "catch"],
                   tmp)

\* await Promise.all(savedPaths.map(p => fs.unlink(p).catch(() => {})))
ConcUnlinkSvgs(r) ==
  /\ reqs[r].pc \in {"unlink", "unlinkErr"}
  /\ LET ps == PathSet(reqs[r].savedPaths)
     IN  Step(r, [reqs[r] EXCEPT
                    !.pc = IF @ = "unlink" THEN "unlinkPdf" ELSE "catch",
                    !.touched = @ \cup OwnersAt(tmp, ps)],
              UnlinkFiles(tmp, ps))

\* await fs.unlink(pdfPath).catch(() => {})
ConcUnlinkPdf(r) ==
  /\ reqs[r].pc = "unlinkPdf"
  /\ Step(r, [reqs[r] EXCEPT !.pc = "respond"],
          UnlinkFiles(tmp, {ConvertPath(build, r)}))

\* return res.json({ svgPages })
ConcRespond(r) ==
  /\ reqs[r].pc = "respond"
  /\ Step(r, [reqs[r] EXCEPT !.pc = "done", !.status = 200], tmp)

\* catch (err) { return res.status(500).json(...) }
ConcCatch(r) ==
  /\ reqs[r].pc = "catch"
  /\ Step(r, [reqs[r] EXCEPT !.pc = "done", !.status = 500], tmp)

InitConc ==
  /\ fin = NoInput /\ fop = "none" /\ fout = <<>>
  /\ IdleRequest
  /\ build \in Builds /\ IdleConc

NextConc ==
  \E r \in Requests :
    \/ ConcReceive(r)
    \/ ConcStart(r)
    \/ ConcRename(r)
    \/ ConcConvert(r)
    \/ ConcSaveFiles(r)
    \/ ConcReadFiles(r)
    \/ ConcUnlinkSvgs(r)
    \/ ConcUnlinkPdf(r)
    \/ ConcRespond(r)
    \/ ConcCatch(r)

SpecConc == InitConc /\ [][NextConc]_vars

\* ================================================================= claims
\* what the claims read off the inputs and the results
InX1 == fin.box.x1.v
InY1 == fin.box.y1.v
InX2 == fin.box.x2.v
InY2 == fin.box.y2.v

CropOps == {"cropSvgString", "cropSvgStringV1", "cropSvgStringV2"}

\* the page text holds a root <svg ...> ... </svg> pair
HasRootPair(doc) ==
  \E i \in 1..Len(doc), j \in 1..Len(doc) :
    i < j /\ IsSvgOpen(doc[i]) /\ IsSvgClose(doc[j])

\* the root element of a produced document and its parts
OutRootAttrs(out)  == out.val[1].attrs
OutTranslate(out)  == out.val[2].attrs[1].val.nums
AttrsNamed(attrs, n) == { i \in 1..Len(attrs) : attrs[i].name = n }
OutViewBoxes(out)  ==
  { OutRootAttrs(out)[i].val : i \in AttrsNamed(OutRootAttrs(out), Name("", "viewBox")) }

PositiveRect == RLt(InX1, InX2) /\ RLt(InY1, InY2)

\* C1: for every page with a parseable viewBox {minX, minY, width, height}
\* and every mapped crop rectangle with x2 > x1 and y2 > y1, the group of the
\* document every crop implementation of the repository returns is translated
\* by dx = -(minX + x1), dy = -(minY + y1).
C1_TranslationIncludesOrigin ==
  (/\ fop \in CropOps
   /\ getViewBox(fin.doc).ok
   /\ PositiveRect
   /\ fout.ok)
  => OutTranslate(fout) =
       << RNeg(RAdd(getViewBox(fin.doc).minX, InX1)),
          RNeg(RAdd(getViewBox(fin.doc).minY, InY1)) >>

\* C1 restricted to cropSvgString of src/index.js
C1_IndexJsOnly ==
  (fop = "cropSvgString") => C1_TranslationIncludesOrigin

\* C2: for every valid ViewBox with width > 0 and height > 0 and every
\* MappedRect inside it with x2 > x1 and y2 > y1, cropSvg succeeds on the
\* page and the root of its output has the one viewBox "0 0 x2-x1 y2-y1".
C2_OutputViewBox ==
  LET vb == getViewBox(fin.doc)
  IN  (/\ fop = "cropSvgString"
       /\ HasRootPair(fin.doc)
       /\ vb.ok /\ RPos(vb.width) /\ RPos(vb.height)
       /\ PositiveRect
       /\ RLe(vb.minX, InX1) /\ RLe(InX2, RAdd(vb.minX, vb.width))
       /\ RLe(vb.minY, InY1) /\ RLe(InY2, RAdd(vb.minY, vb.height)))
      => /\ fout.ok
         /\ Cardinality(AttrsNamed(OutRootAttrs(fout), Name("", "viewBox"))) = 1
         /\ OutViewBoxes(fout) =
              { NumVal("space", <<RZero, RZero, RSub(InX2, InX1), RSub(InY2, InY1)>>) }

\* C2's case: rect (10,10,50,60) on viewBox "0 0 100 200" gave "0 0 40 50"
C2_Witness ==
  /\ fop = "cropSvgString"
  /\ fin.doc = ExamplePage(0, 0, 100, 200)
  /\ fin.box = IntBox(10, 10, 50, 60)
  /\ fout.ok
  /\ OutViewBoxes(fout) = { NumVal("space", <<R(0), R(0), R(40), R(50)>>) }
  /\ OutTranslate(fout) = <<R(-10), R(-10)>>

\* the scaled, order-normalized rectangle the mapper flips
Scaled == ScaledBox(fin.box, fin.rasterW, fin.rasterH, fin.svgW, fin.svgH)

\* C5: with origin "topleft" the mapper returns y1' = height - y2_scaled and
\* y2' = height - y1_scaled and leaves X as scaled; with origin "pdf" or
\* none it returns the scaled, order-normalized rectangle unchanged; either
\* way y2' - y1' = y2_scaled - y1_scaled.  convertTopLeftToBottomLeft of the
\* older copy flips the same way.
C5_OriginFlip ==
  /\ (fop = "mapBoxToSvg" /\ fin.origin \in {"topleft", "TOPLEFT"})
       => /\ fout.y1 = RSub(fin.svgH, Scaled.y2)
          /\ fout.y2 = RSub(fin.svgH, Scaled.y1)
          /\ fout.x1 = Scaled.x1 /\ fout.x2 = Scaled.x2
  /\ (fop = "mapBoxToSvg" /\ fin.origin \in {"", "pdf"})
       => fout = Scaled
  /\ (fop = "mapBoxToSvg")
       => RSub(fout.y2, fout.y1) = RSub(Scaled.y2, Scaled.y1)
  /\ (fop = "convertTopLeftToBottomLeft")
       => fout = Box(InX1, RSub(fin.svgH, InY2), InX2, RSub(fin.svgH, InY1))

\* C5's case: height 200 and rect (10,20,50,80), origin topleft, gave
\* y1' = 120 and y2' = 180
C5_Witness ==
  /\ fop = "mapBoxToSvg"
  /\ fin.origin = "topleft" /\ fin.svgH = R(200)
  /\ fin.box = IntBox(10, 20, 50, 80) /\ ~fin.rasterH.some
  /\ fout = Box(R(10), R(120), R(50), R(180))

\* the scale factors as C6 states them: both raster dimensions supplied and
\* positive, or no scaling at all
BothRasters ==
  /\ fin.rasterW.some /\ RPos(fin.rasterW.v)
  /\ fin.rasterH.some /\ RPos(fin.rasterH.v)
StatedSx == IF BothRasters THEN RDiv(fin.svgW, fin.rasterW.v) ELSE R(1)
StatedSy == IF BothRasters THEN RDiv(fin.svgH, fin.rasterH.v) ELSE R(1)
RMin(a, b) == IF RLt(b, a) THEN b ELSE a
RMaxOf(a, b) == IF RLt(b, a) THEN a ELSE b
\* the rectangle before origin handling, read back from the result
BeforeOrigin ==
  IF Lower(fin.origin) = "topleft"
  THEN Box(fout.x1, RSub(fin.svgH, fout.y2), fout.x2, RSub(fin.svgH, fout.y1))
  ELSE fout

\* C6: when rasterW and rasterH are supplied and positive, x is multiplied by
\* sx = width / rasterW and y by sy = height / rasterH; otherwise
\* sx = sy = 1; after scaling a reversed pair is swapped, so x1 <= x2 and
\* y1 <= y2.  (Stated on the rectangle before origin handling.)
C6_ScaleThenNormalize ==
  (fop = "mapBoxToSvg" /\ IsRect(fin.box))
  => /\ BeforeOrigin.x1 = RMin(RMul(InX1, StatedSx), RMul(InX2, StatedSx))
     /\ BeforeOrigin.x2 = RMaxOf(RMul(InX1, StatedSx), RMul(InX2, StatedSx))
     /\ BeforeOrigin.y1 = RMin(RMul(InY1, StatedSy), RMul(InY2, StatedSy))
     /\ BeforeOrigin.y2 = RMaxOf(RMul(InY1, StatedSy), RMul(InY2, StatedSy))
     /\ RLe(BeforeOrigin.x1, BeforeOrigin.x2) /\ RLe(BeforeOrigin.y1, BeforeOrigin.y2)

\* C6 as amended: sx = width / rasterW when rasterW is supplied and
\* positive, else 1; sy = height / rasterH when rasterH is supplied and
\* positive, else 1, each axis decided by its own raster dimension; after
\* scaling a reversed pair is swapped, so x1 <= x2 and y1 <= y2.
C6_PerAxis ==
  (fop = "mapBoxToSvg" /\ IsRect(fin.box))
  => LET sx == IF fin.rasterW.some /\ RPos(fin.rasterW.v)
               THEN RDiv(fin.svgW, fin.rasterW.v) ELSE R(1)
         sy == IF fin.rasterH.some /\ RPos(fin.rasterH.v)
               THEN RDiv(fin.svgH, fin.rasterH.v) ELSE R(1)
     IN  /\ BeforeOrigin.x1 = RMin(RMul(InX1, sx), RMul(InX2, sx))
         /\ BeforeOrigin.x2 = RMaxOf(RMul(InX1, sx), RMul(InX2, sx))
         /\ BeforeOrigin.y1 = RMin(RMul(InY1, sy), RMul(InY2, sy))
         /\ BeforeOrigin.y2 = RMaxOf(RMul(InY1, sy), RMul(InY2, sy))
         /\ RLe(BeforeOrigin.x1, BeforeOrigin.x2)
         /\ RLe(BeforeOrigin.y1, BeforeOrigin.y2)

\* C6's case: rasterW = 1000, rasterH = 2000, viewBox 100 x 200 and rect
\* (100,200,300,400) gave (10,20,30,40)
C6_Witness ==
  /\ fop = "mapBoxToSvg"
  /\ fin.rasterW = Some(R(1000)) /\ fin.rasterH = Some(R(2000))
  /\ fin.svgW = R(100) /\ fin.svgH = R(200)
  /\ fin.box = IntBox(100, 200, 300, 400) /\ fin.origin = "pdf"
  /\ fout = Box(R(10), R(20), R(30), R(40))

\* the names the claims speak of
XmlnsName  == Name("", "xmlns")
XlinkName  == Name("xmlns", "xlink")
XSpaceName == Name("xml", "space")

\* the attributes of the source's root tag
SourceRootAttrs(doc) ==
  IF \E i \in 1..Len(doc) : IsSvgOpen(doc[i])
  THEN doc[CHOOSE i \in 1..Len(doc) :
             IsSvgOpen(doc[i]) /\ \A j \in 1..(i - 1) : ~IsSvgOpen(doc[j])].attrs
  ELSE <<>>

NoDuplicateNames(attrs) ==
  \A i \in 1..Len(attrs), j \in 1..Len(attrs) : attrs[i].name = attrs[j].name => i = j

Declares(attrs, n, v) ==
  \E i \in 1..Len(attrs) : attrs[i].name = n /\ attrs[i].val = StrVal(v)

\* C7: whenever a crop implementation of the repository succeeds, the root of
\* its output declares xmlns, xmlns:xlink and xml:space, with the values
\* http://www.w3.org/2000/svg, http://www.w3.org/1999/xlink and preserve
\* when the source root declares none of the three, and no attribute name
\* occurs twice on the output root.
C7_NamespacesOnce ==
  (fop \in CropOps /\ fout.ok)
  => LET out == OutRootAttrs(fout)
         src == SourceRootAttrs(fin.doc)
     IN  /\ AttrsNamed(out, XmlnsName) # {}
         /\ AttrsNamed(out, XlinkName) # {}
         /\ AttrsNamed(out, XSpaceName) # {}
         /\ (AttrsNamed(src, XmlnsName) \cup AttrsNamed(src, XlinkName)
               \cup AttrsNamed(src, XSpaceName) = {})
            => /\ Declares(out, XmlnsName, SvgNs)
               /\ Declares(out, XlinkName, XlinkNs)
               /\ Declares(out, XSpaceName, "preserve")
         /\ NoDuplicateNames(out)

\* C7 restricted to cropSvgString of src/index.js
C7_IndexJsOnly ==
  (fop = "cropSvgString") => C7_NamespacesOnce

\* C8: cropSvg applied to a text without a root <svg ...>...</svg> pair
\* fails with the malformed-SVG error, not with the unknown-page-size or the
\* invalid-crop-box error, and returns no SVG.
C8_MalformedError ==
  (fop = "cropSvgString" /\ ~HasRootPair(fin.doc) /\ PositiveRect)
  => ~fout.ok /\ fout.err = MalformedMsg

\* C8 without the kind of the error: such a text never yields an SVG
C8_NeverAnSvg ==
  (fop \in CropOps /\ ~HasRootPair(fin.doc)) => ~fout.ok

\* C9: getViewBox returns the four numbers of the viewBox attribute of the
\* outermost <svg> element only, and null when that element has no viewBox
\* (or the text has no <svg> tag), whatever viewBox occurs elsewhere.
C9_RootViewBoxOnly ==
  (fop = "getViewBox" /\ fout.ok)
  => \E i \in AttrsNamed(SourceRootAttrs(fin.doc), Name("", "viewBox")) :
       LET v == SourceRootAttrs(fin.doc)[i].val
       IN  /\ Len(v.nums) >= 4
           /\ <<fout.minX, fout.minY, fout.width, fout.height>> = SubSeq(v.nums, 1, 4)

\* ------------------------------------------------- claims about the routes
\* the page number the caller asked for, 1 when none was supplied
RequestedPage == IF req.page.k = "num" THEN req.page.n ELSE 1

\* the crop route has selected (or refused) a page
PageSelected == endpoint = "crop" /\ trace.stage # ""

\* C3: in the crop operation, a page number below 1 or above the number of
\* rendered pages is answered with an out-of-range failure whose message
\* holds the requested number and the page count, and nothing is cropped;
\* otherwise the page processed is pages[pageNumber - 1] counting from zero
\* (the pageNumber-th page), with pageNumber 1 when the caller gives none.
C3_PageSelection ==
  PageSelected
  => IF RequestedPage < 1 \/ RequestedPage > Len(rendered)
     THEN /\ resp.status = 400
          /\ resp.error.text = OutOfRangeMsg(0, 0).text
          /\ resp.error.args = <<RequestedPage, Len(rendered)>>
          /\ resp.svg = <<>>
          /\ trace.stage = "range"
     ELSE /\ trace.fullPageSvg = rendered[RequestedPage]
          /\ resp.error.text # OutOfRangeMsg(0, 0).text
          /\ resp.status = 200 => resp.page = R(RequestedPage)

\* C3's case: page 3 of a two-page document was refused, naming 3 and 2
C3_Witness ==
  /\ PageSelected
  /\ req.page = Numeral(3) /\ Len(rendered) = 2
  /\ resp.status = 400 /\ resp.error.args = <<3, 2>>

\* C3's other case: the second of two different pages was cropped
C3_SecondPageReached ==
  /\ PageSelected /\ resp.status = 200
  /\ req.page = Numeral(2) /\ rendered[1] # rendered[2]
  /\ trace.fullPageSvg = rendered[2]

\* the messages of the invalid-crop-box kind
\* (a missing or non-finite coordinate is refused under the same kind)
InvalidCropBoxTexts == {MissingCoordsMsg.text, BadBoxMsg.text, ZeroBoxMsg}

AllCoordsNumeric ==
  req.x1.k = "num" /\ req.y1.k = "num" /\ req.x2.k = "num" /\ req.y2.k = "num"

\* the rectangle the caller sent has zero width or zero height
ZeroExtent ==
  \/ req.x1.k = "num" /\ req.x2.k = "num" /\ req.x1.n = req.x2.n
  \/ req.y1.k = "num" /\ req.y2.k = "num" /\ req.y1.n = req.y2.n

\* C4: a crop request (with its file) whose rectangle has zero width or
\* zero height ends in an invalid-crop-box failure and never in a cropped
\* SVG, whatever the origin and the raster dimensions; so does every request
\* whose width or height after scaling and normalization is not positive.
C4_ZeroBoxRefused ==
  /\ (endpoint = "crop" /\ pc = "done" /\ HasCropFile(req) /\ ZeroExtent)
     => /\ resp.status = 400
        /\ resp.error.text \in InvalidCropBoxTexts
        /\ resp.svg = <<>>
  /\ (/\ endpoint = "crop" /\ trace.stage = "crop"
      /\ (~RLt(trace.mapped.x1, trace.mapped.x2) \/ ~RLt(trace.mapped.y1, trace.mapped.y2)))
     => /\ resp.status = 400
        /\ resp.error.text \in InvalidCropBoxTexts
        /\ resp.svg = <<>>

\* C4's case: a zero-width rectangle with origin topleft and raster
\* dimensions was refused
C4_Witness ==
  /\ endpoint = "crop" /\ pc = "done" /\ HasCropFile(req) /\ AllCoordsNumeric
  /\ req.x1.n = req.x2.n /\ req.y1.n < req.y2.n
  /\ req.coordsOrigin = "topleft"
  /\ req.rasterPageWidth.k = "num" /\ req.rasterPageHeight.k = "num"
  /\ resp.error = BadBoxMsg

\* C4's other case: a rectangle of positive width was scaled to width zero
C4_ScaledToZeroReached ==
  /\ endpoint = "crop" /\ pc = "done" /\ trace.stage = "crop"
  /\ req.x1.n < req.x2.n
  /\ trace.mapped.x1 = trace.mapped.x2
  /\ resp.error.text = ZeroBoxMsg

\* C10: once a request to either route has been answered and its handler has
\* run to its end, no temporary file of the request is left: neither the
\* upload (under its original or its .pdf name) nor a saved page SVG.
C10_NoTempFileLeft ==
  (pc = "done") => fs = {}

\* C10 for the page SVGs alone
C10_NoSvgFileLeft ==
  (pc = "done") => \A f \in fs : f.kind # "svg"

\* -------------------------------------------- claims about overlapping requests
\* the pages of request r's own upload, in document order
OwnPages(r) == [i \in 1..reqs[r].pages |-> Content(r, i)]

\* C11: under every interleaving of concurrent requests, the pages a request
\* reads back and answers with are the ones rendered from its own upload,
\* and no request reads, overwrites or deletes a file under /tmp whose
\* content belongs to another request.
C11_RequestsIsolated ==
  \A r \in Requests :
    /\ reqs[r].touched \subseteq {r}
    /\ reqs[r].status = 200 => reqs[r].svgPages = OwnPages(r)

\* C11 for the versions that leave the naming of the result to the upload
C11_UniqueNamesOnly ==
  (build # "part_002") => C11_RequestsIsolated

\* ------------------------------------------------ claims about the renderer
\* the renderer answered the request's one call and returned no page
ZeroPagesRendered == calls.returned /\ rendered = <<>>

\* the failures of the upstream-render kind the routes can answer with
RenderFailureTexts == {RendererMsg.text, ConversionFailedMsg.text, "Error"}

\* C12: when the renderer returns zero pages the operation fails with the
\* upstream-render-failure kind: full-page extraction does not answer with a
\* success carrying an empty svgPages, and the crop operation does not
\* report a page out of range.
C12_ZeroPagesIsRenderFailure ==
  (pc = "done" /\ ZeroPagesRendered)
  => /\ resp.status # 200
     /\ resp.error.text # OutOfRangeMsg(0, 0).text
     /\ resp.error.text \in RenderFailureTexts

\* what the routes do answer: extraction a success with no page, the crop
\* route page out of range with a count of 0 (unless reading back failed)
C12_ZeroPagesAnswer ==
  (pc = "done" /\ ZeroPagesRendered)
  => IF endpoint = "extract"
     THEN resp.status = 200 /\ resp.svgPages = <<>>
     ELSE /\ resp.status = 400
          /\ resp.error.text = OutOfRangeMsg(0, 0).text
          /\ resp.error.args[2] = 0

\* ----------------------------------------------- claims about validation
\* the crop request lacks its file, lacks a finite x1, y1, x2 or y2, or its
\* rectangle does not satisfy x2 > x1 and y2 > y1
InvalidCropRequest ==
  \/ req.file \notin {"data", "pdf"}
  \/ ~AllCoordsNumeric
  \/ ~(req.x2.n > req.x1.n /\ req.y2.n > req.y1.n)

\* C15: in the crop operation validation precedes all processing: a request
\* whose file is missing, whose x1, y1, x2 or y2 is missing or non-finite, or
\* whose rectangle does not satisfy x2 > x1 and y2 > y1 is answered with a
\* failure, and for it the renderer is never called and the upload never
\* renamed; the renderer is called at most once per request.
C15_ValidationFirst ==
  /\ (endpoint = "crop" /\ InvalidCropRequest)
     => /\ calls.rename = 0 /\ calls.convert = 0
        /\ pc \notin {"rename", "convert", "save", "read", "unlink", "unlinkErr", "rendered"}
        /\ pc = "done" => resp.status = 400 /\ resp.svg = <<>>
  /\ calls.convert <= 1

\* C15's case: a request with its file and a reversed rectangle was refused
\* with nothing renamed or rendered
C15_Witness ==
  /\ endpoint = "crop" /\ pc = "done"
  /\ req.file = "data" /\ AllCoordsNumeric /\ req.x2.n < req.x1.n
  /\ resp.status = 400 /\ resp.error = BadBoxMsg
  /\ calls.rename = 0 /\ calls.convert = 0

\* C15's other case: a valid request called the renderer once
C15_RenderedOnceReached ==
  /\ endpoint = "crop" /\ pc = "done" /\ ~InvalidCropRequest
  /\ calls.rename = 1 /\ calls.convert = 1 /\ resp.status = 200

\* ------------------------------------------ claims about the root attributes
\* a name that is exactly xmlns, starts with xmlns: or starts with xml:
IsKeptName(k) == k = XmlnsName \/ k.pre = "xmlns" \/ k.pre = "xml"

\* the value of the first attribute of that name
FirstValue(attrs, n) ==
  attrs[CHOOSE i \in AttrsNamed(attrs, n) : \A j \in AttrsNamed(attrs, n) : i <= j].val

\* the names the cropper puts on every root on its own
CropperNames ==
  {XmlnsName, XlinkName, XSpaceName, Name("", "viewBox"), Name("", "preserveAspectRatio")}

\* C13: every attribute of the source root named xmlns, xmlns:... or xml:...
\* is on the output root of cropSvgString with the value the source declared
\* (the first declared one where the source repeats the name), and no other
\* attribute of the source root is.
C13_RootNamespacesKept ==
  (fop = "cropSvgString" /\ fout.ok)
  => LET src == SourceRootAttrs(fin.doc)
         out == OutRootAttrs(fout)
     IN  /\ \A i \in 1..Len(src) :
              IsKeptName(src[i].name)
              => \E j \in 1..Len(out) :
                   out[j].name = src[i].name /\ out[j].val = FirstValue(src, src[i].name)
         /\ \A j \in 1..Len(out) :
              \/ out[j].name \in CropperNames
              \/ \E i \in 1..Len(src) : src[i].name = out[j].name /\ IsKeptName(src[i].name)

\* the part of C13 that holds: an attribute of the source root whose name is
\* none of the three kinds never reaches the output root
C13_OthersDropped ==
  (fop = "cropSvgString" /\ fout.ok)
  => \A j \in 1..Len(OutRootAttrs(fout)) :
       \/ OutRootAttrs(fout)[j].name \in CropperNames
       \/ IsNsName(OutRootAttrs(fout)[j].name)

\* ------------------------------------------- claims about the inner markup
\* the closing </svg> that matches the <svg ...> opened before position i,
\* with depth svg elements open at i; 0 when there is none
RECURSIVE MatchingClose(_, _, _)
MatchingClose(doc, i, depth) ==
  IF i > Len(doc) THEN 0
  ELSE IF IsSvgOpen(doc[i]) THEN MatchingClose(doc, i + 1, depth + 1)
  ELSE IF IsSvgClose(doc[i])
       THEN IF depth = 1 THEN i ELSE MatchingClose(doc, i + 1, depth - 1)
  ELSE MatchingClose(doc, i + 1, depth)

\* a page that is one root svg element, after an optional XML declaration
WellFormedPage(doc) ==
  LET d == stripXmlDecl(doc)
  IN  /\ Len(d) >= 2
      /\ IsSvgOpen(d[1])
      /\ MatchingClose(d, 2, 1) = Len(d)

HasNestedSvg(doc) ==
  \E i \in 2..Len(stripXmlDecl(doc)) : IsSvgOpen(stripXmlDecl(doc)[i])

\* what the output holds between <g ...> and </g>
OutInner(out) == SubSeq(out.val, 3, Len(out.val) - 2)

\* the text strictly between the root tag and its own closing tag
RootContent(doc) == SubSeq(stripXmlDecl(doc), 2, Len(stripXmlDecl(doc)) - 1)

\* C14: for every well-formed page on which cropSvgString succeeds, the
\* content inside the output's <g> is exactly the text between the root
\* <svg ...> tag and the closing tag that matches it, nested svg elements
\* included, with nothing removed.
C14_InnerIsRootContent ==
  (fop = "cropSvgString" /\ WellFormedPage(fin.doc) /\ fout.ok)
  => OutInner(fout) = RootContent(fin.doc)

\* the part of C14 that holds: a page without nested svg elements
C14_FlatPageContentKept ==
  (fop = "cropSvgString" /\ WellFormedPage(fin.doc) /\ ~HasNestedSvg(fin.doc) /\ fout.ok)
  => OutInner(fout) = RootContent(fin.doc)

====
